---- MODULE Spec2Model ----
(***************************************************************************)
(* FitCheck client (src/App.js): session token lifecycle, the navigation   *)
(* stack, the screens' local state and the backend requests in flight.     *)
(*                                                                         *)
(* Strings the code trims or concatenates are sequences of one-character   *)
(* strings.  Storage operations (AsyncStorage) complete in the order they  *)
(* were issued.  navigation.navigate goes back to a route of that name     *)
(* when the stack already holds one, and pushes otherwise;                 *)
(* navigation.goBack pops the focused route.  SpecRestart adds closing and  *)
(* reopening the app; SpecLabel and SpecResult apply the display-label and *)
(* result-screen computations to inputs drawn from small sets.             *)
(***************************************************************************)
EXTENDS Naturals, Sequences, FiniteSets, Bags, TLC

\* ------------------------------------------------------------ bounds
MaxPending == 2

\* ------------------------------------------------------------ values
NoToken == "null"
Tokens == {"t1", "t2"}
NoItem == "none"
Items == {"i1", "i2"}
ItemLists == {<<>>, <<"i1", "i2">>}
CredValues == {<<>>, <<" ">>, <<"u">>}
AuthScreens == {"Home", "Wardrobe", "ItemDetail", "Add Item",
                "Recommendations", "RecommendationResult"}

\* the value null (no string of the model has a four-letter element)
Null == <<"null">>

\* no recommendation response received, no result screen rendered
NoData == [selected_items |-> Null, overall_reason |-> Null,
           weather_summary |-> Null, weather_warning |-> Null]
NoView == [shown |-> FALSE, emptyState |-> FALSE, widget |-> FALSE,
           cards |-> <<>>, notes |-> <<>>, reasonPoints |-> <<>>]

VARIABLES booting, token, stored, storeQ, nav, login, wardrobe, detail,
          addItem, recs, camera, reqs, alerts, labelItem, labelOut,
          resultData, resultView

appVars == <<booting, token, stored, storeQ, nav, login, wardrobe, detail,
             addItem, recs, camera, reqs, alerts>>
labelVars == <<labelItem, labelOut, resultData, resultView>>
vars == <<booting, token, stored, storeQ, nav, login, wardrobe, detail,
          addItem, recs, camera, reqs, alerts, labelItem, labelOut,
          resultData, resultView>>

\* ------------------------------------------------------------ strings
Range(s) == {s[i] : i \in 1..Len(s)}

RECURSIVE TrimStart(_)
TrimStart(s) == IF s # <<>> /\ Head(s) = " " THEN TrimStart(Tail(s)) ELSE s

RECURSIVE TrimEnd(_)
TrimEnd(s) ==
  IF s # <<>> /\ s[Len(s)] = " " THEN TrimEnd(SubSeq(s, 1, Len(s) - 1)) ELSE s

\* String.prototype.trim
Trim(s) == TrimEnd(TrimStart(s))

\* ------------------------------------------------------------ navigation
Top(n) == IF n = <<>> THEN "none" ELSE n[Len(n)]
Mounted(name, n) == name \in Range(n)

\* navigation.goBack(): pops the focused route; unhandled on the first route
GoBack(n) == IF Len(n) > 1 THEN SubSeq(n, 1, Len(n) - 1) ELSE n

\* navigation.popToTop()
PopToTop(n) == IF Len(n) > 1 THEN SubSeq(n, 1, 1) ELSE n

\* navigation.navigate(name): back to the route of that name, or push
Navigate(n, name) ==
  IF Mounted(name, n)
    THEN SubSeq(n, 1, CHOOSE i \in 1..Len(n) :
                        n[i] = name /\ \A j \in (i + 1)..Len(n) : n[j] # name)
    ELSE Append(n, name)

\* mutant of Screens: the authenticated screens are declared whatever the token
ScreensMut(tok) == AuthScreens

\* which screens the navigator declares (token ? authenticated : Login)
Screens(tok) == IF tok # NoToken THEN AuthScreens ELSE {"Login"}

\* the stack after a render with token tok: routes whose screen is no longer
\* declared are dropped, and an empty stack starts at the first screen
Rerender(n, tok) ==
  IF n # <<>> /\ Range(n) \subseteq Screens(tok) THEN n
  ELSE IF "Home" \in Screens(tok) THEN <<"Home">> ELSE <<"Login">>

\* ------------------------------------------------------------ screen state
LoginInit == [username |-> <<>>, password |-> <<>>, loading |-> FALSE]
WardrobeInit == [selectionMode |-> FALSE, items |-> <<>>, loading |-> FALSE,
                 tok |-> NoToken]
DetailInit == [item |-> NoItem, deleting |-> FALSE]
AddItemInit == [uploading |-> FALSE, imageUri |-> FALSE]
RecsInit == [prompt |-> FALSE, loading |-> FALSE, modal |-> FALSE,
             selParam |-> NoItem]
NoCamera == [who |-> "none", alive |-> FALSE]

\* ------------------------------------------------------------ requests
Owner(kind) ==
  CASE kind \in {"signIn", "signUp"} -> "Login"
    [] kind = "items" -> "Wardrobe"
    [] kind = "delete" -> "ItemDetail"
    [] kind = "upload" -> "Add Item"
    [] kind \in {"recPrompt", "recSelection", "recImage"} -> "Recommendations"

\* A request in flight: its call, whether the screen instance that issued it
\* is still mounted, and for GET /items (the one call whose handler acts on
\* the session) the bearer token it was sent with; NoToken for the others.
Req(kind, tok, alive) == [kind |-> kind, tok |-> tok, alive |-> alive]
One(r) == SetToBag({r})
InFlight == BagToSet(reqs)
\* backend requests and storage operations not yet completed
Room(rq) == BagCardinality(rq) + Len(storeQ) < MaxPending

\* the issuing screen instance is still mounted and focused
OwnerActive(r) == r.alive /\ Top(nav) = Owner(r.kind)

\* ------------------------------------------------------------ commit
\* One render commit: the new stack n and the screens' tentative states.  A
\* screen that is no longer on the stack loses its state, requests and a
\* camera session issued by it lose their screen, and a Wardrobe screen that
\* gains focus runs its focus listener, fetchItems (first half).
Settle(n, lg, wd, dt, ad, rc, cam, rq) ==
  LET focus == Top(n) = "Wardrobe" /\ Top(nav) # "Wardrobe"
      wd1 == IF focus THEN [wd EXCEPT !.loading = TRUE] ELSE wd
      rq1 == IF focus THEN rq (+) One(Req("items", wd.tok, TRUE)) ELSE rq
      Keep(r) == [r EXCEPT !.alive = r.alive /\ Mounted(Owner(r.kind), n)]
  IN /\ focus => Room(rq)
     /\ nav' = n
     /\ login' = IF Mounted("Login", n) THEN lg ELSE LoginInit
     /\ wardrobe' = IF Mounted("Wardrobe", n) THEN wd1 ELSE WardrobeInit
     /\ detail' = IF Mounted("ItemDetail", n) THEN dt ELSE DetailInit
     /\ addItem' = IF Mounted("Add Item", n) THEN ad ELSE AddItemInit
     /\ recs' = IF Mounted("Recommendations", n) THEN rc ELSE RecsInit
     /\ camera' = IF cam.who = "none" THEN NoCamera
                  ELSE [cam EXCEPT !.alive = cam.alive /\ Mounted(cam.who, n)]
     /\ reqs' = BagOfAll(Keep, rq1)
     /\ UNCHANGED labelVars

\* nothing but the listed parts change
Same(n, rq) == Settle(n, login, wardrobe, detail, addItem, recs, camera, rq)

\* the user can act on screen name: it is focused and no camera covers it
CanTap(name) == ~booting /\ Top(nav) = name /\ camera.who = "none"

\* ------------------------------------------------------------ session
Init ==
  /\ booting = TRUE
  /\ token = NoToken
  /\ stored \in Tokens \cup {NoToken}
  /\ storeQ = <<[op |-> "get", val |-> NoToken]>>
  /\ nav = <<>>
  /\ login = LoginInit
  /\ wardrobe = WardrobeInit
  /\ detail = DetailInit
  /\ addItem = AddItemInit
  /\ recs = RecsInit
  /\ camera = NoCamera
  /\ reqs = EmptyBag
  /\ alerts = <<>>
  /\ labelItem = [name |-> <<>>, color |-> <<>>, category |-> <<>>]
  /\ labelOut = [site |-> "none", label |-> <<>>]
  /\ resultData = NoData
  /\ resultView = NoView

\* App boot effect: AsyncStorage.getItem resolves
bootEffect ==
  /\ storeQ # <<>> /\ Head(storeQ).op = "get"
  /\ storeQ' = Tail(storeQ)
  /\ booting' = FALSE
  /\ token' = stored
  /\ alerts' = <<>>
  /\ Same(Rerender(nav, stored), reqs)
  /\ UNCHANGED stored

\* mutant of signOut: the persisted token is never removed
signOutMut(n, rq) ==
  /\ token' = NoToken
  /\ storeQ' = storeQ
  /\ Same(Rerender(n, NoToken), rq)
  /\ UNCHANGED <<booting, stored>>

\* auth.signOut: setToken(null), then AsyncStorage.removeItem is issued
signOut(n, rq) ==
  /\ token' = NoToken
  /\ storeQ' = Append(storeQ, [op |-> "remove", val |-> NoToken])
  /\ Same(Rerender(n, NoToken), rq)
  /\ UNCHANGED <<booting, stored>>

\* AsyncStorage.removeItem("token") completes
removeItem_done ==
  /\ storeQ # <<>> /\ Head(storeQ).op = "remove"
  /\ storeQ' = Tail(storeQ)
  /\ stored' = NoToken
  /\ alerts' = <<>>
  /\ UNCHANGED <<booting, token, nav, login, wardrobe, detail, addItem, recs,
                 camera, reqs, labelVars>>

\* AsyncStorage.setItem("token", t) completes; signIn / signUp go on to
\* setToken(t)
setItem_done ==
  /\ storeQ # <<>> /\ Head(storeQ).op = "set"
  /\ storeQ' = Tail(storeQ)
  /\ stored' = Head(storeQ).val
  /\ token' = Head(storeQ).val
  /\ alerts' = <<>>
  /\ Same(Rerender(nav, Head(storeQ).val), reqs)
  /\ UNCHANGED booting

\* ------------------------------------------------------------ Login screen
setUsername(v) ==
  /\ CanTap("Login")
  /\ login' = [login EXCEPT !.username = v]
  /\ alerts' = <<>>
  /\ UNCHANGED <<booting, token, stored, storeQ, nav, wardrobe, detail,
                 addItem, recs, camera, reqs, labelVars>>

setPassword(v) ==
  /\ CanTap("Login")
  /\ login' = [login EXCEPT !.password = v]
  /\ alerts' = <<>>
  /\ UNCHANGED <<booting, token, stored, storeQ, nav, wardrobe, detail,
                 addItem, recs, camera, reqs, labelVars>>

\* mutant of validate: the fields are not trimmed
validateMut == login.username # <<>> /\ login.password # <<>>

\* LoginScreen.validate
validate == Trim(login.username) # <<>> /\ Trim(login.password) # <<>>

\* Login / Sign Up button: validate, setLoading(true), call signIn / signUp
\* (up to its fetch)
LoginPress(kind) ==
  /\ CanTap("Login")
  /\ IF ~validate
       THEN /\ alerts' = <<"Enter username and password">>
            /\ UNCHANGED <<login, reqs>>
       ELSE /\ Room(reqs)
            /\ alerts' = <<>>
            /\ login' = [login EXCEPT !.loading = TRUE]
            /\ reqs' = reqs (+) One(Req(kind, NoToken, TRUE))
  /\ UNCHANGED <<booting, token, stored, storeQ, nav, wardrobe, detail,
                 addItem, recs, camera, labelVars>>

\* what the backend may answer to POST /token and POST /signup
AuthResponses ==
  {[kind |-> "neterr", access_token |-> NoToken],
   [kind |-> "notjson", access_token |-> NoToken]}
  \cup {[kind |-> "json", access_token |-> t] : t \in Tokens \cup {NoToken}}

\* mutant of HasAccessToken: any JSON body counts as a login
HasAccessTokenMut(resp) == resp.kind = "json"

\* if (!data.access_token) throw
HasAccessToken(resp) == resp.kind = "json" /\ resp.access_token # NoToken

\* signIn / signUp from the fetch's result on, and the button handler's
\* setLoading(false) once the call returns without a token
AuthResume(r, resp, title) ==
  /\ r \in InFlight
  /\ IF HasAccessToken(resp)
       THEN /\ storeQ' = Append(storeQ, [op |-> "set", val |-> resp.access_token])
            /\ alerts' = <<>>
            /\ login' = login
       ELSE /\ storeQ' = storeQ
            /\ alerts' = <<title>>
            /\ login' = IF r.alive THEN [login EXCEPT !.loading = FALSE] ELSE login
  /\ reqs' = reqs (-) One(r)
  /\ UNCHANGED <<booting, token, stored, nav, wardrobe, detail, addItem, recs,
                 camera, labelVars>>

signIn_resume(r, resp) == r.kind = "signIn" /\ AuthResume(r, resp, "Login failed")
signUp_resume(r, resp) == r.kind = "signUp" /\ AuthResume(r, resp, "Signup failed")

\* Sign out button of the header bar (Home, Wardrobe outside selection mode,
\* ItemDetail)
SignOutPress ==
  /\ Room(reqs)
  /\ \/ CanTap("Home")
     \/ CanTap("Wardrobe") /\ ~wardrobe.selectionMode
     \/ CanTap("ItemDetail")
  /\ alerts' = <<>>
  /\ signOut(nav, reqs)

\* ------------------------------------------------------------ responses
\* res.ok
Ok(resp) == resp.kind = "http" /\ resp.status >= 200 /\ resp.status <= 299

Statuses == {200, 401, 500}

\* what the backend may answer to GET /items: no answer, a 401, or another
\* status with a body that is an array, an object with or without items,
\* null, or not JSON
ItemsResponses ==
  {[kind |-> "neterr", status |-> 0, shape |-> "none", items |-> <<>>],
   [kind |-> "http", status |-> 401, shape |-> "other", items |-> <<>>]}
  \cup {[kind |-> "http", status |-> s, shape |-> sh, items |-> l] :
          s \in {200, 500}, sh \in {"array", "wrapped"}, l \in ItemLists}
  \cup {[kind |-> "http", status |-> s, shape |-> sh, items |-> <<>>] :
          s \in {200, 500}, sh \in {"other", "null", "notjson"}}

\* what the backend may answer to DELETE /delete-item and POST /add-item
PlainResponses ==
  {[kind |-> "neterr", status |-> 0]}
  \cup {[kind |-> "http", status |-> s] : s \in Statuses}

\* what the backend may answer to POST /outfit/from-prompt and /from-image
RecResponses ==
  {[kind |-> "neterr", status |-> 0, shape |-> "none"]}
  \cup {[kind |-> "http", status |-> s, shape |-> sh] :
          s \in Statuses, sh \in {"object", "notjson"}}

\* ------------------------------------------------------------ Home screen
\* "Take me to my wardrobe"
HomeWardrobePress ==
  /\ CanTap("Home")
  /\ alerts' = <<>>
  /\ Settle(Navigate(nav, "Wardrobe"), login,
            [WardrobeInit EXCEPT !.selectionMode = FALSE, !.tok = token],
            detail, addItem, recs, camera, reqs)
  /\ UNCHANGED <<booting, token, stored, storeQ>>

\* "Generate my fit for today"
HomeRecommendationsPress ==
  /\ CanTap("Home")
  /\ alerts' = <<>>
  /\ Settle(Navigate(nav, "Recommendations"), login, wardrobe, detail, addItem,
            RecsInit, camera, reqs)
  /\ UNCHANGED <<booting, token, stored, storeQ>>

\* ------------------------------------------------------------ Wardrobe screen
\* header Back of Wardrobe, ItemDetail, Add Item and Recommendations
BackPress(name) ==
  /\ CanTap(name)
  /\ name = "Recommendations" => ~recs.modal
  /\ alerts' = <<>>
  /\ Same(GoBack(nav), reqs)
  /\ UNCHANGED <<booting, token, stored, storeQ>>

\* Array.isArray(data) ? data : data.items || []
ItemsOf(resp) ==
  IF resp.shape \in {"array", "wrapped"} THEN resp.items ELSE <<>>

\* fetchItems from the fetch's result on
fetchItems_resume(r, resp) ==
  /\ r \in InFlight /\ r.kind = "items"
  /\ IF resp.kind = "http" /\ resp.status = 401
       THEN /\ alerts' = <<"Session expired">>
            /\ signOut(nav, reqs (-) One(r))
       ELSE LET focused == OwnerActive(r)
                threw == \/ resp.kind = "neterr"
                         \/ resp.shape = "notjson"
                         \/ focused /\ resp.shape = "null"
                wd == IF ~focused THEN wardrobe
                      ELSE [wardrobe EXCEPT
                              !.items = IF threw THEN @ ELSE ItemsOf(resp),
                              !.loading = FALSE]
            IN /\ alerts' = IF threw THEN <<"Error fetching items">> ELSE <<>>
               /\ Settle(nav, login, wd, detail, addItem, recs, camera,
                         reqs (-) One(r))
               /\ UNCHANGED <<booting, token, stored, storeQ>>

\* mutant of handleItemPress: selection mode is not consulted
handleItemPressMut(item) ==
  /\ CanTap("Wardrobe")
  /\ ~wardrobe.loading /\ item \in Range(wardrobe.items)
  /\ alerts' = <<>>
  /\ Settle(Navigate(nav, "ItemDetail"), login, wardrobe,
            [DetailInit EXCEPT !.item = item], addItem, recs, camera, reqs)
  /\ UNCHANGED <<booting, token, stored, storeQ>>

\* WardrobeScreen.handleItemPress
handleItemPress(item) ==
  /\ CanTap("Wardrobe")
  /\ ~wardrobe.loading /\ item \in Range(wardrobe.items)
  /\ alerts' = <<>>
  /\ IF wardrobe.selectionMode
       THEN Settle(Navigate(nav, "Recommendations"), login, wardrobe, detail,
                   addItem, [recs EXCEPT !.selParam = item], camera, reqs)
       ELSE Settle(Navigate(nav, "ItemDetail"), login, wardrobe,
                   [DetailInit EXCEPT !.item = item], addItem, recs, camera,
                   reqs)
  /\ UNCHANGED <<booting, token, stored, storeQ>>

\* mutant of AddItemPress: the button is rendered in selection mode too
AddItemPressMut ==
  /\ CanTap("Wardrobe")
  /\ alerts' = <<>>
  /\ Settle(Navigate(nav, "Add Item"), login, wardrobe, detail, AddItemInit,
            recs, camera, reqs)
  /\ UNCHANGED <<booting, token, stored, storeQ>>

\* the Add Item button, rendered outside selection mode only
AddItemPress ==
  /\ CanTap("Wardrobe")
  /\ ~wardrobe.selectionMode
  /\ alerts' = <<>>
  /\ Settle(Navigate(nav, "Add Item"), login, wardrobe, detail, AddItemInit,
            recs, camera, reqs)
  /\ UNCHANGED <<booting, token, stored, storeQ>>

\* ------------------------------------------------------------ ItemDetail
\* ItemDetailScreen.handleDelete: the confirmation dialog, and on "Delete"
\* the handler up to its fetch
handleDelete(confirmed) ==
  /\ CanTap("ItemDetail")
  /\ alerts' = <<"Delete item">>
  /\ IF confirmed
       THEN /\ Room(reqs)
            /\ detail' = [detail EXCEPT !.deleting = TRUE]
            /\ reqs' = reqs (+) One(Req("delete", NoToken, TRUE))
       ELSE UNCHANGED <<detail, reqs>>
  /\ UNCHANGED <<booting, token, stored, storeQ, nav, login, wardrobe, addItem,
                 recs, camera, labelVars>>

\* handleDelete from the fetch's result on
handleDelete_resume(r, resp) ==
  /\ r \in InFlight /\ r.kind = "delete"
  /\ alerts' = IF Ok(resp) THEN <<>> ELSE <<"Delete failed">>
  /\ Settle(IF Ok(resp) THEN GoBack(nav) ELSE nav, login, wardrobe,
            IF r.alive THEN [detail EXCEPT !.deleting = FALSE] ELSE detail,
            addItem, recs, camera, reqs (-) One(r))
  /\ UNCHANGED <<booting, token, stored, storeQ>>

\* ------------------------------------------------------------ Add Item
\* AddItemScreen.handlePhotoUpload up to the camera
handlePhotoUpload(granted) ==
  /\ CanTap("Add Item")
  /\ IF granted
       THEN /\ alerts' = <<>>
            /\ camera' = [who |-> "Add Item", alive |-> TRUE]
       ELSE /\ alerts' = <<"Camera permission required">>
            /\ camera' = camera
  /\ UNCHANGED <<booting, token, stored, storeQ, nav, login, wardrobe, detail,
                 addItem, recs, reqs, labelVars>>

\* handlePhotoUpload from the camera's result up to its fetch
handlePhotoUpload_camera(canceled) ==
  /\ camera.who = "Add Item"
  /\ alerts' = <<>>
  /\ camera' = NoCamera
  /\ IF canceled
       THEN UNCHANGED <<addItem, reqs>>
       ELSE /\ Room(reqs)
            /\ addItem' = IF camera.alive
                            THEN [uploading |-> TRUE, imageUri |-> TRUE]
                            ELSE addItem
            /\ reqs' = reqs (+) One(Req("upload", NoToken, camera.alive))
  /\ UNCHANGED <<booting, token, stored, storeQ, nav, login, wardrobe, detail,
                 recs, labelVars>>

\* handlePhotoUpload from the fetch's result on
handlePhotoUpload_resume(r, resp) ==
  /\ r \in InFlight /\ r.kind = "upload"
  /\ alerts' = IF Ok(resp) THEN <<"Saved!">> ELSE <<"Error">>
  /\ Settle(IF Ok(resp) THEN GoBack(nav) ELSE nav, login, wardrobe, detail,
            IF r.alive THEN [addItem EXCEPT !.uploading = FALSE] ELSE addItem,
            recs, camera, reqs (-) One(r))
  /\ UNCHANGED <<booting, token, stored, storeQ>>

\* ------------------------------------------------------------ Recommendations
setPrompt(b) ==
  /\ CanTap("Recommendations") /\ ~recs.modal
  /\ alerts' = <<>>
  /\ recs' = [recs EXCEPT !.prompt = b]
  /\ UNCHANGED <<booting, token, stored, storeQ, nav, login, wardrobe, detail,
                 addItem, camera, reqs, labelVars>>

\* the camera overlay: opened by "Complete Outfit from Photo", closed by its
\* X, its Back button and the system back button
setCameraModalVisible(b) ==
  /\ CanTap("Recommendations") /\ recs.modal # b
  /\ alerts' = <<>>
  /\ recs' = [recs EXCEPT !.modal = b]
  /\ UNCHANGED <<booting, token, stored, storeQ, nav, login, wardrobe, detail,
                 addItem, camera, reqs, labelVars>>

\* "Choose from Wardrobe" of the overlay
ChooseFromWardrobePress ==
  /\ CanTap("Recommendations") /\ recs.modal
  /\ alerts' = <<>>
  /\ Settle(Navigate(nav, "Wardrobe"), login,
            [WardrobeInit EXCEPT !.selectionMode = TRUE, !.tok = token],
            detail, addItem, [recs EXCEPT !.modal = FALSE], camera, reqs)
  /\ UNCHANGED <<booting, token, stored, storeQ>>

\* a recommendation call up to its fetch: setLoading(true), fetch
StartRec(kind, rc, alive) ==
  /\ Room(reqs)
  /\ recs' = IF alive THEN [rc EXCEPT !.loading = TRUE] ELSE recs
  /\ reqs' = reqs (+) One(Req(kind, NoToken, alive))

\* RecommendationsScreen.generateFromPrompt up to its fetch
generateFromPrompt ==
  /\ CanTap("Recommendations") /\ ~recs.modal
  /\ alerts' = <<>>
  /\ StartRec("recPrompt", recs, TRUE)
  /\ UNCHANGED <<booting, token, stored, storeQ, nav, login, wardrobe, detail,
                 addItem, camera, labelVars>>

\* the selectedWardrobeItem effect: clear the param, then
\* handleWardrobeSelection(item) up to its fetch
handleWardrobeSelection ==
  /\ Mounted("Recommendations", nav) /\ recs.selParam # NoItem
  /\ alerts' = <<>>
  /\ StartRec("recSelection",
              [recs EXCEPT !.selParam = NoItem, !.modal = FALSE], TRUE)
  /\ UNCHANGED <<booting, token, stored, storeQ, nav, login, wardrobe, detail,
                 addItem, camera, labelVars>>

\* RecommendationsScreen.handleLaunchCamera up to the camera
handleLaunchCamera(granted) ==
  /\ CanTap("Recommendations") /\ recs.modal
  /\ IF granted
       THEN /\ alerts' = <<>>
            /\ camera' = [who |-> "Recommendations", alive |-> TRUE]
       ELSE /\ alerts' = <<"Camera permission required">>
            /\ camera' = camera
  /\ UNCHANGED <<booting, token, stored, storeQ, nav, login, wardrobe, detail,
                 addItem, recs, reqs, labelVars>>

\* handleLaunchCamera from the camera's result up to its fetch
handleLaunchCamera_camera(canceled) ==
  /\ camera.who = "Recommendations"
  /\ alerts' = <<>>
  /\ camera' = NoCamera
  /\ LET rc == IF camera.alive THEN [recs EXCEPT !.modal = FALSE] ELSE recs
     IN IF canceled
          THEN recs' = rc /\ reqs' = reqs
          ELSE StartRec("recImage", rc, camera.alive)
  /\ UNCHANGED <<booting, token, stored, storeQ, nav, login, wardrobe, detail,
                 addItem, labelVars>>

\* if (!isMounted.current) return
isMounted(r) == r.alive

\* a recommendation call from the fetch's result on
RecResume(r, resp, title) ==
  /\ r \in InFlight
  /\ LET done == resp.kind = "http" /\ resp.shape = "object" /\ Ok(resp)
         rq == reqs (-) One(r)
     IN IF ~isMounted(r)
          THEN alerts' = <<>> /\ Same(nav, rq)
          ELSE IF done
            THEN /\ alerts' = <<>>
                 /\ Settle(Navigate(nav, "RecommendationResult"), login,
                           wardrobe, detail, addItem,
                           [recs EXCEPT !.prompt = FALSE, !.loading = FALSE],
                           camera, rq)
            ELSE /\ alerts' = <<title>>
                 /\ Settle(nav, login, wardrobe, detail, addItem,
                           [recs EXCEPT !.loading = FALSE], camera, rq)
  /\ UNCHANGED <<booting, token, stored, storeQ>>

generateFromPrompt_resume(r, resp) ==
  r.kind = "recPrompt" /\ RecResume(r, resp, "Failed")
handleWardrobeSelection_resume(r, resp) ==
  r.kind = "recSelection" /\ RecResume(r, resp, "Error")
handleLaunchCamera_resume(r, resp) ==
  r.kind = "recImage" /\ RecResume(r, resp, "Failed")

\* ------------------------------------------------------------ Result screen
\* header Back of the result screen: navigation.popToTop()
ResultBackPress ==
  /\ CanTap("RecommendationResult")
  /\ alerts' = <<>>
  /\ Same(PopToTop(nav), reqs)
  /\ UNCHANGED <<booting, token, stored, storeQ>>


Next ==
  \/ bootEffect
  \/ removeItem_done
  \/ setItem_done
  \/ \E v \in CredValues : setUsername(v)
  \/ \E v \in CredValues : setPassword(v)
  \/ \E k \in {"signIn", "signUp"} : LoginPress(k)
  \/ \E r \in InFlight, resp \in AuthResponses : signIn_resume(r, resp)
  \/ \E r \in InFlight, resp \in AuthResponses : signUp_resume(r, resp)
  \/ SignOutPress
  \/ HomeWardrobePress
  \/ HomeRecommendationsPress
  \/ \E name \in {"Wardrobe", "ItemDetail", "Add Item", "Recommendations"} :
       BackPress(name)
  \/ \E r \in InFlight, resp \in ItemsResponses : fetchItems_resume(r, resp)
  \/ \E item \in Items : handleItemPress(item)
  \/ AddItemPress
  \/ \E confirmed \in BOOLEAN : handleDelete(confirmed)
  \/ \E r \in InFlight, resp \in PlainResponses : handleDelete_resume(r, resp)
  \/ \E granted \in BOOLEAN : handlePhotoUpload(granted)
  \/ \E canceled \in BOOLEAN : handlePhotoUpload_camera(canceled)
  \/ \E r \in InFlight, resp \in PlainResponses :
       handlePhotoUpload_resume(r, resp)
  \/ \E b \in BOOLEAN : setPrompt(b)
  \/ \E b \in BOOLEAN : setCameraModalVisible(b)
  \/ ChooseFromWardrobePress
  \/ generateFromPrompt
  \/ handleWardrobeSelection
  \/ \E granted \in BOOLEAN : handleLaunchCamera(granted)
  \/ \E canceled \in BOOLEAN : handleLaunchCamera_camera(canceled)
  \/ \E r \in InFlight, resp \in RecResponses :
       generateFromPrompt_resume(r, resp)
  \/ \E r \in InFlight, resp \in RecResponses :
       handleWardrobeSelection_resume(r, resp)
  \/ \E r \in InFlight, resp \in RecResponses :
       handleLaunchCamera_resume(r, resp)
  \/ ResultBackPress

Spec == Init /\ [][Next]_vars
\* ------------------------------------------------------------ display label
Str_item == <<"i", "t", "e", "m">>
Str_Item == <<"I", "t", "e", "m">>
Str_blue == <<"b", "l", "u", "e">>
Str_shirt == <<"s", "h", "i", "r", "t">>
Str_tee == <<"t", "e", "e">>

\* a || b on strings and null
OrElse(a, b) == IF a # Null /\ a # <<>> THEN a ELSE b

\* WardrobeScreen.renderGridItem: label
renderGridItem_label(item) ==
  OrElse(item.name,
         OrElse(Trim(OrElse(item.color, <<>>) \o <<" ">>
                     \o OrElse(item.category, Str_item)),
                Str_Item))

\* ItemDetailScreen: label
ItemDetailScreen_label(item) ==
  OrElse(item.name,
         OrElse(Trim(OrElse(item.color, <<>>) \o <<" ">>
                     \o OrElse(item.category, Str_item)),
                Str_Item))

\* OutfitCard: label
OutfitCard_label(item) ==
  OrElse(item.name,
         OrElse(Trim(OrElse(item.color, <<>>) \o <<" ">>
                     \o OrElse(item.category, Str_item)),
                Str_Item))

LabelNames == {Null, <<>>, Str_tee}
LabelColors == {Null, <<>>, <<" ">>, Str_blue}
LabelCategories == {Null, <<>>, <<" ">>, Str_shirt}

InitLabel ==
  /\ booting = TRUE
  /\ token = NoToken
  /\ stored = NoToken
  /\ storeQ = <<[op |-> "get", val |-> NoToken]>>
  /\ nav = <<>>
  /\ login = LoginInit
  /\ wardrobe = WardrobeInit
  /\ detail = DetailInit
  /\ addItem = AddItemInit
  /\ recs = RecsInit
  /\ camera = NoCamera
  /\ reqs = EmptyBag
  /\ alerts = <<>>
  /\ labelItem \in [name : LabelNames, color : LabelColors,
                    category : LabelCategories]
  /\ labelOut = [site |-> "none", label |-> <<>>]
  /\ resultData = NoData
  /\ resultView = NoView

RenderGridItem ==
  /\ labelOut' = [site |-> "grid", label |-> renderGridItem_label(labelItem)]
  /\ UNCHANGED <<appVars, labelItem, resultData, resultView>>

RenderItemDetail ==
  /\ labelOut' = [site |-> "detail", label |-> ItemDetailScreen_label(labelItem)]
  /\ UNCHANGED <<appVars, labelItem, resultData, resultView>>

RenderOutfitCard ==
  /\ labelOut' = [site |-> "card", label |-> OutfitCard_label(labelItem)]
  /\ UNCHANGED <<appVars, labelItem, resultData, resultView>>

NextLabel == RenderGridItem \/ RenderItemDetail \/ RenderOutfitCard

SpecLabel == InitLabel /\ [][NextLabel]_vars

\* ------------------------------------------------------------ result screen
IsSpace(c) == c \in {" ", "\t", "\n"}

RECURSIVE SkipSpaces(_)
SkipSpaces(s) == IF s # <<>> /\ IsSpace(Head(s)) THEN SkipSpaces(Tail(s)) ELSE s

\* s.replace(/\s+/g, " ")
RECURSIVE CollapseSpaces(_)
CollapseSpaces(s) ==
  IF s = <<>> THEN <<>>
  ELSE IF IsSpace(Head(s)) THEN <<" ">> \o CollapseSpaces(SkipSpaces(s))
  ELSE <<Head(s)>> \o CollapseSpaces(Tail(s))

\* s.split(/[.;]/), cur being the part read so far
RECURSIVE SplitFrom(_, _)
SplitFrom(s, cur) ==
  IF s = <<>> THEN <<cur>>
  ELSE IF Head(s) \in {".", ";"} THEN <<cur>> \o SplitFrom(Tail(s), <<>>)
  ELSE SplitFrom(Tail(s), Append(cur, Head(s)))

Split(s) == SplitFrom(s, <<>>)

\* mutant of NonEmpty: empty parts are kept
NonEmptyMut(part) == TRUE

\* (p) => p.length > 0
NonEmpty(part) == Len(part) > 0

\* RecommendationResultScreen.reasonPoints
reasonPoints(overallReason) ==
  IF overallReason = <<>> THEN <<>>
  ELSE LET trimmed == Trim(CollapseSpaces(overallReason))
           split == Split(trimmed)
           parts == [i \in 1..Len(split) |-> Trim(split[i])]
           kept == SelectSeq(parts, NonEmpty)
       IN SubSeq(kept, 1, IF Len(kept) < 6 THEN Len(kept) ELSE 6)

\* the params the recommendation handlers pass to RecommendationResult
ResultParams(data) ==
  [outfit |-> IF data.selected_items = Null THEN <<>> ELSE data.selected_items,
   overallReason |-> OrElse(data.overall_reason, <<>>),
   weatherSummary |-> OrElse(data.weather_summary, <<>>),
   weatherWarning |-> OrElse(data.weather_warning, <<>>)]

\* mutant of OutfitIsEmpty: the empty state is never chosen
OutfitIsEmptyMut(outfit) == FALSE

\* outfit.length === 0
OutfitIsEmpty(outfit) == Len(outfit) = 0

\* what RecommendationResultScreen renders from its params
RecommendationResultScreen(params) ==
  LET points == reasonPoints(params.overallReason)
  IN IF OutfitIsEmpty(params.outfit)
       THEN [shown |-> TRUE, emptyState |-> TRUE, widget |-> FALSE,
             cards |-> <<>>, notes |-> <<>>, reasonPoints |-> points]
       ELSE [shown |-> TRUE, emptyState |-> FALSE,
             widget |-> (params.weatherSummary # <<>>
                         \/ params.weatherWarning # <<>>),
             cards |-> params.outfit, notes |-> points,
             reasonPoints |-> points]

Str_example ==
  <<"G", "r", "e", "a", "t", " ", "f", "o", "r", " ", "w", "a", "r", "m",
  " ", "w", "e", "a", "t", "h", "e", "r", ".", " ", "B", "r", "e", "a", "t",
  "h", "a", "b", "l", "e", " ", "f", "a", "b", "r", "i", "c", ";", " ", "c",
  "a", "s", "u", "a", "l", " ", "f", "i", "t", ".">>
Str_seven ==
  <<"a", ".", "b", ";", "c", ".", "d", ";", "e", ".", "f", ".", "g">>
Str_spaced ==
  <<" ", "a", " ", "\t", " ", "b", ".", " ", ";", "\n", " ", "c", " ", " ",
  ";">>
Str_sunny == <<"s", "u", "n">>

Outfits == {Null, <<>>, <<"i1">>, <<"i1", "i2">>}
Reasons == {Null, <<>>, <<" ", "\n">>, <<".", ";", " ", ".">>, <<"a">>,
            Str_spaced, Str_seven, Str_example}
WeatherTexts == {Null, <<>>, Str_sunny}

InitResult ==
  /\ booting = TRUE
  /\ token = NoToken
  /\ stored = NoToken
  /\ storeQ = <<[op |-> "get", val |-> NoToken]>>
  /\ nav = <<>>
  /\ login = LoginInit
  /\ wardrobe = WardrobeInit
  /\ detail = DetailInit
  /\ addItem = AddItemInit
  /\ recs = RecsInit
  /\ camera = NoCamera
  /\ reqs = EmptyBag
  /\ alerts = <<>>
  /\ labelItem = [name |-> <<>>, color |-> <<>>, category |-> <<>>]
  /\ labelOut = [site |-> "none", label |-> <<>>]
  /\ resultData \in [selected_items : Outfits, overall_reason : Reasons,
                     weather_summary : WeatherTexts,
                     weather_warning : WeatherTexts]
  /\ resultView = NoView

\* navigation.navigate("RecommendationResult", params) and the screen's render
ShowResult ==
  /\ ~resultView.shown
  /\ resultView' = RecommendationResultScreen(ResultParams(resultData))
  /\ UNCHANGED <<appVars, labelItem, labelOut, resultData>>

NextResult == ShowResult

SpecResult == InitResult /\ [][NextResult]_vars

\* ------------------------------------------------------------ fairness
\* a storage operation that was issued completes
StorageCompletes == bootEffect \/ removeItem_done \/ setItem_done

FairSpec == Spec /\ WF_vars(StorageCompletes)

\* ------------------------------------------------------------ restart
\* the persisted token once the storage operations q have been carried out
RECURSIVE ApplyOps(_, _)
ApplyOps(s, q) ==
  IF q = <<>> THEN s
  ELSE ApplyOps(CASE Head(q).op = "set" -> Head(q).val
                  [] Head(q).op = "remove" -> NoToken
                  [] OTHER -> s,
                Tail(q))

\* The app is closed and opened again: App mounts anew (booting, no token,
\* the boot read issued), every screen, request and camera session of the
\* old run is gone, and of the storage operations still pending any number,
\* in the order they were issued, were carried out before the old run ended.
Restart ==
  /\ \E k \in 0..Len(storeQ) :
       stored' = ApplyOps(stored, SubSeq(storeQ, 1, k))
  /\ booting' = TRUE
  /\ token' = NoToken
  /\ storeQ' = <<[op |-> "get", val |-> NoToken]>>
  /\ nav' = <<>>
  /\ login' = LoginInit
  /\ wardrobe' = WardrobeInit
  /\ detail' = DetailInit
  /\ addItem' = AddItemInit
  /\ recs' = RecsInit
  /\ camera' = NoCamera
  /\ reqs' = EmptyBag
  /\ alerts' = <<>>
  /\ UNCHANGED labelVars

\* first start after installation: nothing is persisted
InitFresh == Init /\ stored = NoToken

NextRestart == Next \/ Restart

SpecRestart == InitFresh /\ [][NextRestart]_vars

FairSpecRestart == SpecRestart /\ WF_vars(StorageCompletes)

\* ------------------------------------------------------------ properties
HasRemove(q) == \E i \in 1..Len(q) : q[i].op = "remove"
Count(kind, rq, alive) == CopiesIn(Req(kind, NoToken, alive), rq)
Issued(kind, rq) == Count(kind, rq, TRUE) + Count(kind, rq, FALSE)
RecKinds == {"recPrompt", "recSelection", "recImage"}

\* C1: a signIn or signUp call whose response carries no access_token, or
\* whose fetch or JSON parse fails, leaves the in-memory token, the persisted
\* token and the stack as they were (no storage write is issued) and shows
\* exactly one notice.
C1_FailedAuthKeepsSession ==
  [][\A r \in InFlight, resp \in AuthResponses :
       (/\ resp.access_token = NoToken
        /\ signIn_resume(r, resp) \/ signUp_resume(r, resp))
       => /\ token' = token /\ stored' = stored /\ storeQ' = storeQ
          /\ nav' = nav
          /\ Len(alerts') = 1]_vars

\* C1 witness: a login was refused while signed out
C1_Witness ==
  /\ alerts = <<"Login failed">>
  /\ token = NoToken /\ nav = <<"Login">> /\ storeQ = <<>>

\* C2: a 401 answer to GET /items, whatever screen is focused when it
\* arrives, clears the in-memory token, shows the login stack and issues the
\* removal of the persisted token; and a removal that was issued is
\* eventually carried out.
C2_Items401SignsOut ==
  /\ [][\A r \in InFlight, resp \in ItemsResponses :
          (resp.status = 401 /\ fetchItems_resume(r, resp))
          => /\ token' = NoToken /\ nav' = <<"Login">>
             /\ storeQ' = Append(storeQ, [op |-> "remove", val |-> NoToken])]_vars
  /\ (HasRemove(storeQ) ~> stored = NoToken)

\* C2 witness: the session just expired and the persisted token is still
\* there, its removal issued
C2_Witness ==
  /\ alerts = <<"Session expired">>
  /\ token = NoToken /\ nav = <<"Login">>
  /\ stored # NoToken /\ HasRemove(storeQ)

\* C3: a 401 answer to any authenticated call (GET /items, POST /add-item,
\* DELETE /delete-item, POST /outfit/from-prompt, POST /outfit/from-image)
\* signs the user out.
C3_Any401SignsOut ==
  [][\A r \in InFlight :
       (\/ \E resp \in ItemsResponses :
             resp.status = 401 /\ fetchItems_resume(r, resp)
        \/ \E resp \in PlainResponses :
             /\ resp.status = 401
             /\ handleDelete_resume(r, resp) \/ handlePhotoUpload_resume(r, resp)
        \/ \E resp \in RecResponses :
             /\ resp.status = 401
             /\ \/ generateFromPrompt_resume(r, resp)
                \/ handleWardrobeSelection_resume(r, resp)
                \/ handleLaunchCamera_resume(r, resp))
       => token' = NoToken /\ nav' = <<"Login">>]_vars

\* the stack shown is the one the token selects
StackFollowsToken ==
  /\ token = NoToken => nav = <<"Login">>
  /\ token # NoToken =>
       nav # <<>> /\ nav[1] = "Home" /\ Range(nav) \subseteq AuthScreens

\* C4 as stated: in every reachable state the token alone selects the stack.
C4_StackFollowsTokenAlways == StackFollowsToken

\* C4 as amended: once the boot read has finished, the token alone selects
\* the stack; while it has not, no screen of either stack is shown.
C4_StackFollowsTokenAfterBoot ==
  IF booting THEN nav = <<>> /\ token = NoToken ELSE StackFollowsToken

\* C4 witness: signed out from a screen of the authenticated stack, the
\* removal of the persisted token still pending
C4_Witness ==
  /\ ~booting /\ token = NoToken /\ nav = <<"Login">>
  /\ stored # NoToken /\ HasRemove(storeQ)

\* what C5 says the label is, where it says it
C5_Expected(item) ==
  IF item.name # Null /\ item.name # <<>> THEN item.name
  ELSE IF item.color = Null /\ item.category = Null THEN Str_Item
  ELSE Trim(item.color \o <<" ">> \o item.category)

\* C5: at all three sites the label is the name when there is one, else
\* "{color} {category}" trimmed, and "Item" when name, color and category
\* are all null.
C5_LabelFallback ==
  (/\ labelOut.site # "none"
   /\ \/ labelItem.name \notin {Null, <<>>}
      \/ labelItem.color \notin {Null, <<>>, <<" ">>}
           /\ labelItem.category \notin {Null, <<>>, <<" ">>}
      \/ labelItem.name = Null /\ labelItem.color = Null
           /\ labelItem.category = Null)
  => labelOut.label = C5_Expected(labelItem)

\* C6: in selection mode a tap on an item goes to the Recommendations
\* screen with that item as selectedWardrobeItem, and not to ItemDetail.
C6_SelectionTapGoesToRecommendations ==
  [][\A item \in Items :
       (wardrobe.selectionMode /\ handleItemPress(item))
       => /\ Top(nav') = "Recommendations"
          /\ recs'.selParam = item
          /\ ~Mounted("ItemDetail", nav')]_vars

\* C6 witness: back on Recommendations with the tapped item as the param
C6_Witness ==
  /\ Top(nav) = "Recommendations" /\ recs.selParam \in Items
  /\ ~Mounted("Wardrobe", nav)

\* C7: while a Wardrobe screen in selection mode is focused, no step issues
\* a DELETE /delete-item or POST /add-item request or shows the ItemDetail or
\* Add Item screen.
C7_SelectionModeNeverDeletesOrAdds ==
  [][(Top(nav) = "Wardrobe" /\ wardrobe.selectionMode)
     => /\ Top(nav') \notin {"ItemDetail", "Add Item"}
        /\ Issued("delete", reqs') <= Issued("delete", reqs)
        /\ Issued("upload", reqs') <= Issued("upload", reqs)]_vars

\* C7 witness: a selection-mode Wardrobe showing items to tap
C7_Witness ==
  /\ Top(nav) = "Wardrobe" /\ wardrobe.selectionMode
  /\ ~wardrobe.loading /\ wardrobe.items # <<>>
  /\ camera.who = "none"

\* C8: the answer to a request whose screen the user has left changes no
\* state, navigates nowhere and shows no notice (wardrobe fetch, delete,
\* upload and the three recommendation requests).
C8_LeftScreenIgnoresAnswer ==
  [][\A r \in InFlight :
       (/\ ~OwnerActive(r)
        /\ \/ \E resp \in ItemsResponses : fetchItems_resume(r, resp)
           \/ \E resp \in PlainResponses :
                handleDelete_resume(r, resp) \/ handlePhotoUpload_resume(r, resp)
           \/ \E resp \in RecResponses :
                \/ generateFromPrompt_resume(r, resp)
                \/ handleWardrobeSelection_resume(r, resp)
                \/ handleLaunchCamera_resume(r, resp))
       => /\ alerts' = <<>>
          /\ UNCHANGED <<token, storeQ, nav, login, wardrobe, detail, addItem,
                         recs>>]_vars

\* C9: a Recommendations screen has at most one recommendation request in
\* flight, and an Add Item screen at most one upload.
C9_OneRequestPerScreen ==
  /\ Count("recPrompt", reqs, TRUE) + Count("recSelection", reqs, TRUE)
       + Count("recImage", reqs, TRUE) <= 1
  /\ Count("upload", reqs, TRUE) <= 1

\* a request of one of these calls, issued by the mounted screen, is in flight
Pending(kinds) == \E r \in InFlight : r.kind \in kinds /\ r.alive

\* C10: while a screen is mounted, its pending flag is true whenever one of
\* its requests is in flight.
C10_FlagWhileInFlight ==
  /\ Pending({"signIn", "signUp"}) => login.loading
  /\ Pending({"items"}) => wardrobe.loading
  /\ Pending({"delete"}) => detail.deleting
  /\ Pending({"upload"}) => addItem.uploading
  /\ Pending(RecKinds) => recs.loading

\* the answer to GET /items is a failure: no answer, a status outside 2xx,
\* or a body that is not JSON
ItemsFailed(resp) ==
  resp.kind = "neterr" \/ ~Ok(resp) \/ resp.shape = "notjson"

\* the answer to a recommendation call is a failure
RecFailed(resp) ==
  resp.kind = "neterr" \/ ~Ok(resp) \/ resp.shape = "notjson"

\* the answer r gets is a failure and this step is r's handler running on it,
\* the screen that issued r still focused
FailedAnswer(r) ==
  /\ OwnerActive(r)
  /\ \/ \E resp \in AuthResponses :
          /\ ~HasAccessToken(resp)
          /\ signIn_resume(r, resp) \/ signUp_resume(r, resp)
     \/ \E resp \in ItemsResponses :
          ItemsFailed(resp) /\ fetchItems_resume(r, resp)
     \/ \E resp \in PlainResponses :
          /\ ~Ok(resp)
          /\ handleDelete_resume(r, resp) \/ handlePhotoUpload_resume(r, resp)
     \/ \E resp \in RecResponses :
          /\ RecFailed(resp)
          /\ \/ generateFromPrompt_resume(r, resp)
             \/ handleWardrobeSelection_resume(r, resp)
             \/ handleLaunchCamera_resume(r, resp)

\* C11: the handler of a failed backend call (no answer, a status outside
\* 2xx, a malformed body), on whatever endpoint, shows a notice and sends no
\* request again.
C11_FailureNoticeNoRetry ==
  [][\A r \in InFlight :
       FailedAnswer(r)
       => /\ Len(alerts') >= 1
          /\ BagCardinality(reqs') < BagCardinality(reqs)]_vars

\* C12: the handler of a failed login, signup, items fetch, upload, delete or
\* recommendation call leaves the stack, the session token and the screen's
\* local state other than its pending flag as they were.
C12_FailedRequestRestoresState ==
  [][\A r \in InFlight :
       FailedAnswer(r)
       => /\ nav' = nav /\ token' = token
          /\ login'.username = login.username
          /\ login'.password = login.password
          /\ wardrobe'.items = wardrobe.items
          /\ detail'.item = detail.item
          /\ addItem'.imageUri = addItem.imageUri
          /\ recs'.prompt = recs.prompt
          /\ recs'.selParam = recs.selParam]_vars

\* C13: with the username or the password empty or all spaces, Login and
\* Sign Up show one prompt, send no request and leave the token and the
\* pending flag alone.
C13_EmptyCredentialsSendNothing ==
  [][\A k \in {"signIn", "signUp"} :
       (/\ Trim(login.username) = <<>> \/ Trim(login.password) = <<>>
        /\ LoginPress(k))
       => /\ alerts' = <<"Enter username and password">>
          /\ reqs' = reqs /\ storeQ' = storeQ
          /\ token' = token /\ login'.loading = login.loading]_vars

\* C13 witness: the prompt is up over a form whose username is all spaces
C13_Witness ==
  /\ alerts = <<"Enter username and password">>
  /\ login.username = <<" ">> /\ login.password = <<"u">>
  /\ reqs = EmptyBag /\ ~login.loading

\* C17: a 401 answer to a GET /items request that was sent with another
\* token than the one of the session now signed in changes neither the
\* in-memory token nor the persisted one (no removal is issued).
C17_Stale401KeepsNewSession ==
  [][\A r \in InFlight, resp \in ItemsResponses :
       (/\ resp.status = 401 /\ token # NoToken /\ r.tok # token
        /\ fetchItems_resume(r, resp))
       => token' = token /\ stored' = stored /\ storeQ' = storeQ]_vars

\* C18: the answer to a login or signup call whose Login screen has since
\* been replaced (the user got signed in and signed out again after the call
\* was started) issues no token write, so the app stays signed out.
C18_StaleLoginNeverSignsIn ==
  [][\A r \in InFlight, resp \in AuthResponses :
       (/\ ~r.alive /\ ~booting /\ token = NoToken
        /\ signIn_resume(r, resp) \/ signUp_resume(r, resp))
       => storeQ' = storeQ /\ token' = NoToken]_vars

\* no signIn, signUp or signOut call is in progress
Quiescent ==
  /\ ~booting /\ storeQ = <<>>
  /\ \A r \in InFlight : r.kind \notin {"signIn", "signUp"}

\* C19: after boot, whenever no signIn, signUp or signOut call is in
\* progress, the in-memory token equals the persisted one.
C19_QuiescentTokenIsPersisted == Quiescent => token = stored

\* C14: no stack is shown before the persisted token has been read; boot
\* always finishes, with the persisted token as the session; and a restart
\* made while signed in with token t, every storage operation done, finds t
\* persisted, while one made after a sign-out has completed finds nothing
\* persisted.
C14_TokenSurvivesRestart ==
  /\ [](booting => nav = <<>> /\ token = NoToken)
  /\ [][bootEffect => ~booting' /\ token' = stored /\ StackFollowsToken']_vars
  /\ [][(Restart /\ storeQ = <<>> /\ ~booting)
        => booting' /\ stored' = token]_vars
  /\ (booting ~> ~booting)

\* C15: a response whose selected_items is empty or missing gives a result
\* screen with the empty-state message and no outfit card, no weather widget
\* and no stylist note, whatever its other fields hold.
C15_EmptyOutfitShowsEmptyState ==
  (resultView.shown /\ resultData.selected_items \in {Null, <<>>})
  => /\ resultView.emptyState
     /\ resultView.cards = <<>>
     /\ ~resultView.widget
     /\ resultView.notes = <<>>

\* C15 witness: the empty state is shown for a response without
\* selected_items that carries a reason and a weather summary
C15_Witness ==
  /\ resultView.shown /\ resultView.emptyState
  /\ resultData.selected_items = Null
  /\ resultData.overall_reason = Str_example
  /\ resultData.weather_summary = Str_sunny

\* the characters of s that are neither whitespace nor a separator
Letters(s) == SelectSeq(s, LAMBDA c : ~IsSpace(c) /\ c \notin {".", ";"})

RECURSIVE Flatten(_)
Flatten(ss) == IF ss = <<>> THEN <<>> ELSE Head(ss) \o Flatten(Tail(ss))

IsPrefix(a, b) == Len(a) <= Len(b) /\ SubSeq(b, 1, Len(a)) = a

Str_note1 == SubSeq(Str_example, 1, 22)
Str_note2 == SubSeq(Str_example, 25, 41)
Str_note3 == SubSeq(Str_example, 44, 53)

\* C16: every stylist note is trimmed, non-empty, free of separators and of
\* whitespace other than single spaces; the notes are at most 6 and follow
\* the order of overall_reason (all of its text when fewer than 6); the
\* example sentence gives its three notes, an empty or missing
\* overall_reason gives none.
C16_ReasonPoints ==
  resultView.shown =>
    LET pts == resultView.reasonPoints
        src == IF resultData.overall_reason = Null THEN <<>>
               ELSE resultData.overall_reason
    IN /\ Len(pts) <= 6
       /\ \A i \in 1..Len(pts) :
            /\ pts[i] # <<>>
            /\ Head(pts[i]) # " " /\ pts[i][Len(pts[i])] # " "
            /\ \A j \in 1..Len(pts[i]) : pts[i][j] \notin {".", ";", "\t", "\n"}
            /\ \A j \in 1..(Len(pts[i]) - 1) :
                 ~(pts[i][j] = " " /\ pts[i][j + 1] = " ")
       /\ IsPrefix(Letters(Flatten(pts)), Letters(src))
       /\ Len(pts) < 6 => Letters(Flatten(pts)) = Letters(src)
       /\ src = Str_example => pts = <<Str_note1, Str_note2, Str_note3>>
       /\ src = <<>> => pts = <<>>

\* C16 witness: the example sentence was split into its three notes
C16_Witness ==
  /\ resultView.shown
  /\ resultData.overall_reason = Str_example
  /\ Len(resultView.reasonPoints) = 3
====
